---- MODULE Spec2Model ----
(***************************************************************************)
(* Model of the copilot-api gateway core:                                  *)
(*   - processResponseStream (src/routes/responses/route.ts): the loop     *)
(*     that turns Responses-API events into chat-completion chunks;        *)
(*   - handleCompletion (src/routes/chat-completions/handler.ts): model    *)
(*     suffix parsing, max_tokens defaulting, effort -> thinking_budget,   *)
(*     backend selection and the call of the backend;                      *)
(*   - convertToResponsesPayload and convertResponseToChatCompletion       *)
(*     (create-responses): the two payload conversions.                    *)
(*                                                                         *)
(* Strings of the stream protocol are TLA+ strings.  A missing JSON field  *)
(* and an empty string are both written "" where the code only tests the   *)
(* field for truthiness.  Model names of handleCompletion are sequences of *)
(* characters, so that endsWith / slice / startsWith are computed.         *)
(***************************************************************************)
EXTENDS Integers, Sequences, FiniteSets, TLC

VARIABLES
    state,          \* StreamState: responseId, model, toolCalls, roleEmitted
    out,            \* what stream.writeSSE has delivered downstream, in order
    pc,             \* processResponseStream: "run" (in the loop), "done", "failed"
    now,            \* Date.now()
    connected,      \* the downstream consumer is still connected
    upstream,       \* how many events the upstream iterator has yet to deliver
    consumed,       \* the upstream events the for-await loop has received so far
    consumedAtAbort, \* Len(consumed) at the moment the consumer disconnected
    request,        \* handleCompletion: the payload as c.req.json() returned it
    payload,        \* handleCompletion: the local variable payload
    stage,          \* handleCompletion: "received", "parsed", then the backend
                    \* called ("responses" or "chat"), "answered" when a
                    \* non-streaming response was converted; "converting"
                    \* when handleResponsesApi is entered directly;
                    \* "streaming" while processResponseStream runs
    backendCalls,   \* the calls made to createResponses / createChatCompletions,
                    \* in order, each with the payload it was given
    response,       \* handleResponsesApi: what createResponses returned
    chatCompletion  \* handleResponsesApi: what c.json() was given

vars == <<state, out, pc, now, connected, upstream, consumed, consumedAtAbort,
          request, payload, stage, backendCalls, response, chatCompletion>>

requestVars == <<request, payload, stage, backendCalls, response, chatCompletion>>

streamVars == <<state, out, pc, now, connected, upstream, consumed, consumedAtAbort>>

----------------------------------------------------------------------------
(* Bounds *)

MaxEvents == 3
MaxTextEvents == 5
MaxClock == 1

\* messages of a request, output items of a response
MaxMessages == 3

MaxItems == 2

----------------------------------------------------------------------------
(* Upstream events: {event?, data?}.  data is "" (missing or empty),       *)
(* "[DONE]", "bad" (not JSON) or "json"; the remaining fields are the      *)
(* fields of the parsed JSON object the handlers read.                     *)

Ev(event, data, type, id, model, delta, itemType, callId, name) ==
    [event |-> event, data |-> data, type |-> type, id |-> id, model |-> model,
     delta |-> delta, itemType |-> itemType, call_id |-> callId, name |-> name]

Json(event, type, id, model, delta, itemType, callId, name) ==
    Ev(event, "json", type, id, model, delta, itemType, callId, name)

EmptyData == Ev("", "", "", "", "", "", "", "", "")
DoneMarker == Ev("", "[DONE]", "", "", "", "", "", "", "")
BadJson == Ev("response.output_text.delta", "bad", "", "", "", "", "", "", "")
Created1 == Json("response.created", "response.created", "r1", "m1", "", "", "", "")
InProgress2 == Json("response.in_progress", "response.in_progress", "r2", "m2", "", "", "", "")
Completed == Json("response.completed", "response.completed", "r1", "m1", "", "", "", "")
ReasoningR == Json("response.reasoning_summary_text.delta", "", "", "", "r", "", "", "")
TextA == Json("response.output_text.delta", "response.output_text.delta", "", "", "a", "", "", "")
TextB == Json("response.output_text.delta", "response.output_text.delta", "", "", "b", "", "", "")
TextByType == Json("", "response.output_text.delta", "", "", "a", "", "", "")
ArgsX == Json("response.function_call_arguments.delta", "", "", "", "x", "", "", "")
CallAdded == Json("response.output_item.added", "", "", "", "", "function_call", "c1", "f")
MessageAdded == Json("response.output_item.added", "", "", "", "", "message", "", "")
MessageDone == Json("response.output_item.done", "", "", "", "", "message", "", "")
CallDone == Json("response.output_item.done", "", "", "", "", "function_call", "c1", "f")
ReasoningDone == Json("response.output_item.done", "", "", "", "", "reasoning", "", "")
Unknown == Json("response.content_part.added", "response.content_part.added", "", "", "", "", "", "")

Events ==
    {EmptyData, DoneMarker, BadJson, Created1, InProgress2, Completed,
     ReasoningR, TextA, TextB, TextByType, ArgsX, CallAdded, MessageAdded,
     MessageDone, CallDone, ReasoningDone, Unknown}

InitModels == {"gpt-5", ""}

----------------------------------------------------------------------------
(* Chunks *)

Sentinel == [kind |-> "done"]

\* createChunk: the id is the captured response id, or a timestamp-based one
createChunk(st, t, delta, finishReason) ==
    [kind |-> "chunk",
     id |-> IF st.responseId # "" THEN [response |-> st.responseId]
            ELSE [chatcmpl |-> t],
     model |-> st.model,
     delta |-> delta,
     finish_reason |-> finishReason]

RoleDelta == [role |-> "assistant", content |-> ""]

\* the new items put in front (a faulty variant of writeSSE)
writeSSEFront(sink, items) == IF connected THEN items \o sink ELSE sink

\* stream.writeSSE: a write to a disconnected consumer delivers nothing
writeSSE(sink, items) == IF connected THEN sink \o items ELSE sink

\* a role chunk on every call (a faulty variant of emitRoleIfNeeded)
emitRoleAlways(st, t) == << createChunk(st, t, RoleDelta, "null") >>

\* emitRoleIfNeeded, as the chunks it writes at time t
emitRoleIfNeeded(st, t) ==
    IF st.roleEmitted THEN << >> ELSE << createChunk(st, t, RoleDelta, "null") >>

----------------------------------------------------------------------------
(* The event loop *)

isReasoningEvent(e) ==
    \/ e.event = "response.reasoning_summary_text.delta"
    \/ e.event = "response.reasoning.delta"
    \/ e.type = "response.reasoning_summary_text.delta"

\* any content_part event (a faulty variant of isOutputTextEvent)
isOutputTextEventLoose(e) ==
    \/ e.event = "response.output_text.delta"
    \/ e.event \in {"response.content_part.delta", "response.content_part.added"}
    \/ e.type = "response.output_text.delta"

isOutputTextEvent(e) ==
    \/ e.event = "response.output_text.delta"
    \/ e.event = "response.content_part.delta"
    \/ e.type = "response.output_text.delta"

\* the event type is looked at before the data is parsed (a faulty variant of Route)
RouteBeforeParse(e) ==
    IF e.data = "" \/ e.data = "[DONE]" THEN "marker"
    ELSE IF e.event = "response.created" \/ e.event = "response.in_progress" THEN "created"
    ELSE IF e.event = "response.completed" \/ e.event = "response.done" THEN "completed"
    ELSE IF isReasoningEvent(e) THEN "reasoning"
    ELSE IF isOutputTextEvent(e) THEN "text"
    ELSE IF e.data = "bad" THEN "parseError"
    ELSE "ignored"

\* The if-chain of the loop body: the first matching case handles the event
Route(e) ==
    IF e.data = "" \/ e.data = "[DONE]" THEN "marker"
    ELSE IF e.data = "bad" THEN "parseError"
    ELSE IF e.event = "response.created" \/ e.event = "response.in_progress" THEN "created"
    ELSE IF e.event = "response.completed" \/ e.event = "response.done" THEN "completed"
    ELSE IF isReasoningEvent(e) THEN "reasoning"
    ELSE IF isOutputTextEvent(e) THEN "text"
    ELSE IF e.event = "response.function_call_arguments.delta" THEN "arguments"
    ELSE IF e.event = "response.output_item.added" THEN "added"
    ELSE IF e.event = "response.output_item.done" THEN "itemDone"
    ELSE "ignored"

\* for await (const event of events): the iterator delivers the next event
Receive(e) ==
    /\ pc = "run"
    /\ upstream > 0
    /\ upstream' = upstream - 1
    /\ consumed' = Append(consumed, e)
    /\ UNCHANGED <<connected, consumedAtAbort>>
    /\ UNCHANGED requestVars

\* what follows the handling of an end marker or a completed/done event
AfterSentinel == "run"

\* lines 250-253: an event with no data, or "[DONE]"
EndMarker(e) ==
    /\ Receive(e)
    /\ Route(e) = "marker"
    /\ out' = writeSSE(out, <<Sentinel>>)
    /\ \E thrown \in (IF connected THEN {FALSE} ELSE {FALSE, TRUE}) :
          pc' = IF thrown THEN "failed" ELSE AfterSentinel
    /\ UNCHANGED <<state, now>>

\* lines 256, 313-315: JSON.parse throws, the catch logs it
ParseError(e) ==
    /\ Receive(e)
    /\ Route(e) = "parseError"
    /\ UNCHANGED <<state, out, pc, now>>

handleCreatedEvent(st, e) ==
    LET s1 == IF e.id # "" THEN [st EXCEPT !.responseId = e.id] ELSE st
    IN IF s1.model = "" /\ e.model # "" THEN [s1 EXCEPT !.model = e.model] ELSE s1

\* lines 267-273
CreatedEvent(e) ==
    /\ Receive(e)
    /\ Route(e) = "created"
    /\ state' = handleCreatedEvent(state, e)
    /\ UNCHANGED <<out, pc, now>>

\* the "[DONE]" written outside the try block (a faulty variant of
\* CompletedEvent)
CompletedEventUncaught(e) ==
    /\ Receive(e)
    /\ Route(e) = "completed"
    /\ out' = writeSSE(out, <<Sentinel>>)
    /\ \E thrown \in (IF connected THEN {FALSE} ELSE {FALSE, TRUE}) :
          pc' = IF thrown THEN "failed" ELSE AfterSentinel
    /\ UNCHANGED <<state, now>>

\* lines 276-279
CompletedEvent(e) ==
    /\ Receive(e)
    /\ Route(e) = "completed"
    /\ out' = writeSSE(out, <<Sentinel>>)
    /\ pc' = AfterSentinel
    /\ UNCHANGED <<state, now>>

\* the delta of a content chunk
TextDelta(e) == [content |-> e.delta]

ReasoningDeltaOf(e) == [reasoning_content |-> e.delta]

\* handleReasoningDelta / handleOutputTextDelta
DeltaEvent(e, delta) ==
    LET st == [state EXCEPT !.roleEmitted = TRUE]
    IN /\ state' = st
       /\ out' = writeSSE(out, emitRoleIfNeeded(state, now)
                               \o << createChunk(st, now, delta, "null") >>)
       /\ UNCHANGED <<pc, now>>

ReasoningDelta(e) ==
    /\ Receive(e)
    /\ Route(e) = "reasoning"
    /\ DeltaEvent(e, ReasoningDeltaOf(e))

OutputTextDelta(e) ==
    /\ Receive(e)
    /\ Route(e) = "text"
    /\ DeltaEvent(e, TextDelta(e))

\* always the first entry (a faulty variant of ArgumentsIndex)
ArgumentsIndexFirst(calls) == 0

\* line 133
ArgumentsIndex(calls) == IF Len(calls) > 0 THEN Len(calls) - 1 ELSE 0

\* the accumulated total instead of the fragment (a faulty variant of ArgumentsFragment)
ArgumentsTotal(call, e) == call.arguments

\* the arguments string a tool-call chunk carries for an arguments delta
ArgumentsFragment(call, e) == e.delta

\* handleFunctionCallDelta, lines 133-146: calls[i + 1] is toolCalls[i]
appendArguments(calls, e) ==
    LET i == ArgumentsIndex(calls)
        cs == IF Len(calls) = 0
              THEN << [index |-> i, id |-> "", type |-> "function",
                       name |-> "", arguments |-> ""] >>
              ELSE calls
    IN [cs EXCEPT ![i + 1].arguments = cs[i + 1].arguments \o e.delta]

FunctionCallDelta(e) ==
    /\ Receive(e)
    /\ Route(e) = "arguments"
    /\ LET i == ArgumentsIndex(state.toolCalls)
           calls == appendArguments(state.toolCalls, e)
           st == [state EXCEPT !.toolCalls = calls, !.roleEmitted = TRUE]
           delta == [tool_calls |->
                       << [index |-> i,
                           function |-> [arguments |->
                               ArgumentsFragment(calls[i + 1], e)]] >>]
       IN /\ state' = st
          /\ out' = writeSSE(out, emitRoleIfNeeded(state, now)
                                  \o << createChunk(st, now, delta, "null") >>)
          /\ UNCHANGED <<pc, now>>

\* handleFunctionCallCreated, lines 165-176
pushToolCall(calls, e) ==
    Append(calls, [index |-> Len(calls), id |-> e.call_id, type |-> "function",
                   name |-> e.name, arguments |-> ""])

\* lines 300-306 with an item of type function_call
FunctionCallCreated(e) ==
    /\ Receive(e)
    /\ Route(e) = "added"
    /\ e.itemType = "function_call"
    /\ LET calls == pushToolCall(state.toolCalls, e)
           st == [state EXCEPT !.toolCalls = calls, !.roleEmitted = TRUE]
           delta == [tool_calls |->
                       << [index |-> Len(state.toolCalls), id |-> e.call_id,
                           type |-> "function",
                           function |-> [name |-> e.name, arguments |-> ""]] >>]
       IN /\ state' = st
          /\ out' = writeSSE(out, emitRoleIfNeeded(state, now)
                                  \o << createChunk(st, now, delta, "null") >>)
          /\ UNCHANGED <<pc, now>>

\* lines 300-306 with any other item
OtherItemAdded(e) ==
    /\ Receive(e)
    /\ Route(e) = "added"
    /\ e.itemType # "function_call"
    /\ UNCHANGED <<state, out, pc, now>>

\* the two reasons swapped (a faulty variant of finishReasonOf)
finishReasonSwapped(e) ==
    IF e.itemType = "message" THEN "tool_calls"
    ELSE IF e.itemType = "function_call" THEN "stop"
    ELSE "null"

\* no chunk for a function call (a faulty variant of finishReasonOf)
finishReasonMessageOnly(e) == IF e.itemType = "message" THEN "stop" ELSE "null"

\* handleOutputItemDone, lines 198-204
finishReasonOf(e) ==
    IF e.itemType = "message" THEN "stop"
    ELSE IF e.itemType = "function_call" THEN "tool_calls"
    ELSE "null"

OutputItemDone(e) ==
    /\ Receive(e)
    /\ Route(e) = "itemDone"
    /\ out' = IF finishReasonOf(e) # "null"
              THEN writeSSE(out, << createChunk(state, now, << >>, finishReasonOf(e)) >>)
              ELSE out
    /\ UNCHANGED <<state, pc, now>>

\* no case of the loop body matches
IgnoredEvent(e) ==
    /\ Receive(e)
    /\ Route(e) = "ignored"
    /\ UNCHANGED <<state, out, pc, now>>

\* the upstream iterator is exhausted: the loop and the function return
EndOfUpstream ==
    /\ pc = "run"
    /\ upstream = 0
    /\ pc' = "done"
    /\ UNCHANGED <<state, out, now, connected, upstream, consumed, consumedAtAbort>>
    /\ UNCHANGED requestVars

\* time passes while the loop awaits the next event
Tick ==
    /\ pc = "run"
    /\ now < MaxClock
    /\ now' = now + 1
    /\ UNCHANGED <<state, out, pc, connected, upstream, consumed, consumedAtAbort>>
    /\ UNCHANGED requestVars

\* the downstream consumer goes away; the loop never looks at the stream's
\* aborted/closed flags
Disconnect ==
    /\ pc = "run"
    /\ connected
    /\ connected' = FALSE
    /\ consumedAtAbort' = Len(consumed)
    /\ UNCHANGED <<state, out, pc, now, upstream, consumed>>
    /\ UNCHANGED requestVars

----------------------------------------------------------------------------
(* handleCompletion.  A payload is a function from the names of the fields *)
(* it carries to their values; a field that is missing, undefined or null  *)
(* is not in its domain.                                                   *)

NoPayload == [model |-> << >>]

Has(p, k) == k \in DOMAIN p

\* { ...p, k: v }
With(p, k, v) == [x \in DOMAIN p \cup {k} |-> IF x = k THEN v ELSE p[x]]

\* const { k: _, ...rest } = p
Without(p, k) == [x \in DOMAIN p \ {k} |-> p[x]]

\* String.prototype.endsWith / startsWith
endsWith(str, t) ==
    /\ Len(str) >= Len(t)
    /\ SubSeq(str, Len(str) - Len(t) + 1, Len(str)) = t

startsWith(str, t) ==
    /\ Len(str) >= Len(t)
    /\ SubSeq(str, 1, Len(t)) = t

\* the suffix words, as characters
Thinking == << "t", "h", "i", "n", "k", "i", "n", "g" >>
XHigh == << "x", "h", "i", "g", "h" >>
High == << "h", "i", "g", "h" >>
Medium == << "m", "e", "d", "i", "u", "m" >>
Low == << "l", "o", "w" >>
Minimal == << "m", "i", "n", "i", "m", "a", "l" >>
None == << "n", "o", "n", "e" >>

\* lines 56-64, in the order the loop tries them
effortSuffixes == << Thinking, XHigh, High, Medium, Low, Minimal, None >>

\* lines 65-73
suffixToEffort(suffix) ==
    CASE suffix = Thinking -> "high"
      [] suffix = XHigh -> "xhigh"
      [] suffix = High -> "high"
      [] suffix = Medium -> "medium"
      [] suffix = Low -> "low"
      [] suffix = Minimal -> "minimal"
      [] suffix = None -> "none"

\* the hyphen is not required (a faulty variant of matchesSuffix)
matchesSuffixNoHyphen(model, suffix) == endsWith(model, suffix)

\* line 76: payload.model.endsWith(`-${suffix}`)
matchesSuffix(model, suffix) == endsWith(model, <<"-">> \o suffix)

\* lines 75-89: the first suffix that matches is stripped, then break
parseModelSuffix(p) ==
    LET hits == {i \in 1..Len(effortSuffixes) :
                    matchesSuffix(p.model, effortSuffixes[i])}
    IN IF hits = {} THEN p
       ELSE LET suffix == effortSuffixes[CHOOSE i \in hits : \A j \in hits : i <= j]
                baseModel == SubSeq(p.model, 1, Len(p.model) - (Len(suffix) + 1))
            IN With(With(p, "model", baseModel),
                    "reasoning_effort", suffixToEffort(suffix))

\* state.models: the ids the registry knows, with max_output_tokens
Claude4 == << "c", "l", "a", "u", "d", "e", "-", "4" >>
ClaudeBare == << "c", "l", "a", "u", "d", "e" >>
Gpt5 == << "g", "p", "t", "-", "5" >>
Gpt4o == << "g", "p", "t", "-", "4", "o" >>
O1 == << "o", "1" >>
Gemini == << "g", "e", "m", "i", "n", "i" >>

Registry == {<<Claude4, 16000>>, <<Gpt5, 12000>>, <<Gpt4o, 4096>>}

\* lines 92-94 and 114: selectedModel?.capabilities.limits.max_output_tokens,
\* as the set of values found (empty when no model is selected)
maxOutputTokens(model) == {r[2] : r \in {x \in Registry : x[1] = model}}

\* lines 111-117
defaultMaxTokens(p) ==
    IF ~Has(p, "max_tokens") /\ maxOutputTokens(p.model) # {}
    THEN With(p, "max_tokens", CHOOSE v \in maxOutputTokens(p.model) : TRUE)
    ELSE p

\* lines 128-135, in tenths
effortToRatio(effort) ==
    CASE effort = "none" -> {0}
      [] effort = "minimal" -> {1}
      [] effort = "low" -> {2}
      [] effort = "medium" -> {4}
      [] effort = "high" -> {6}
      [] effort = "xhigh" -> {8}
      [] OTHER -> {}

minBudget == 1024

Max(a, b) == IF a >= b THEN a ELSE b

\* rounding up instead of down (a faulty variant of thinkingBudget)
thinkingBudgetCeil(maxTokens, tenths) ==
    Max(minBudget, (maxTokens * tenths + 9) \div 10)

\* lines 139-141: Math.max(minBudget, Math.floor(max_tokens * ratio)); the
\* ratios are tenths and max_tokens an integer, so the floor is exact
thinkingBudget(maxTokens, tenths) == Max(minBudget, (maxTokens * tenths) \div 10)

\* a field holds a truthy value: a non-empty string, a number other than 0
TruthyString(p, k) == Has(p, k) /\ p[k] # ""

TruthyNumber(p, k) == Has(p, k) /\ p[k] # 0

\* lines 121-150
convertEffort(p) ==
    IF /\ TruthyString(p, "reasoning_effort")
       /\ ~TruthyNumber(p, "thinking_budget")
       /\ startsWith(p.model, ClaudeBare)
    THEN LET ratios == {r \in effortToRatio(p.reasoning_effort) : r > 0}
             q == IF ratios # {} /\ TruthyNumber(p, "max_tokens")
                  THEN With(p, "thinking_budget",
                            thinkingBudget(p.max_tokens, CHOOSE r \in ratios : TRUE))
                  ELSE p
         IN Without(q, "reasoning_effort")
    ELSE p

\* lines 28-40
RESPONSES_API_MODELS ==
    { << "g", "p", "t", "-", "5" >>, << "g", "p", "t", "-", "5", ".", "1" >>, << "g", "p", "t", "-", "5", ".", "2" >>, << "g", "p", "t", "-", "5", "-", "m", "i", "n", "i" >>, << "g", "p", "t", "-", "5", "-", "c", "o", "d", "e", "x" >>,
      << "g", "p", "t", "-", "5", ".", "1", "-", "c", "o", "d", "e", "x" >>, << "g", "p", "t", "-", "5", ".", "1", "-", "c", "o", "d", "e", "x", "-", "m", "i", "n", "i" >>, << "g", "p", "t", "-", "5", ".", "1", "-", "c", "o", "d", "e", "x", "-", "m", "a", "x" >>,
      << "o", "1" >>, << "o", "3" >>, << "o", "4", "-", "m", "i", "n", "i" >> }

\* any name an entry begins (a faulty variant of supportsResponsesApi)
supportsResponsesApiNoHyphen(model) ==
    \E prefix \in RESPONSES_API_MODELS : startsWith(model, prefix)

\* lines 42-46
supportsResponsesApi(model) ==
    \E prefix \in RESPONSES_API_MODELS :
        model = prefix \/ startsWith(model, prefix \o <<"-">>)

----------------------------------------------------------------------------
(* create-responses: convertToResponsesPayload.  A message is a record     *)
(* [role, content]; its content is tagged by what JSON carried: a string,  *)
(* an array of parts, or nothing (the field missing or null).              *)

Str(t) == [kind |-> "string", text |-> t]

Parts(ps) == [kind |-> "parts", parts |-> ps]

NullContent == [kind |-> "null"]

Undefined == [kind |-> "undefined"]

TextPart(t) == [type |-> "text", text |-> t]

ImagePart(u) == [type |-> "image_url", url |-> u]

Message(role, content) == [role |-> role, content |-> content]

\* Array.prototype.join
RECURSIVE Join(_, _)
Join(texts, sep) ==
    IF texts = << >> THEN ""
    ELSE IF Len(texts) = 1 THEN texts[1]
    ELSE texts[1] \o sep \o Join(Tail(texts), sep)

IsInstruction(msg) == msg.role = "system" \/ msg.role = "developer"

\* lines 161-167: the text of one system/developer message
instructionText(msg) ==
    IF msg.content.kind = "string" THEN msg.content.text
    ELSE IF msg.content.kind = "parts"
    THEN LET textParts == SelectSeq(msg.content.parts, LAMBDA p : p.type = "text")
         IN Join([i \in 1..Len(textParts) |-> textParts[i].text], "\n")
    ELSE ""

\* line 168: instructions ? `${instructions}\n${content}` : content
appendInstruction(instructions, content) ==
    IF instructions.kind = "string" /\ instructions.text # ""
    THEN Str(instructions.text \o "\n" \o content)
    ELSE Str(content)

\* lines 160-170: the loop, from the instructions accumulated so far
RECURSIVE extractInstructionsFrom(_, _)
extractInstructionsFrom(messages, instructions) ==
    IF messages = << >> THEN instructions
    ELSE extractInstructionsFrom(
            Tail(messages),
            IF IsInstruction(Head(messages))
            THEN appendInstruction(instructions, instructionText(Head(messages)))
            ELSE instructions)

\* lines 153-172
extractInstructions(messages) == extractInstructionsFrom(messages, Undefined)

\* lines 186-196: one content part
convertPart(part) ==
    IF part.type = "text" THEN [type |-> "input_text", text |-> part.text]
    ELSE [type |-> "input_image", image_url |-> part.url]

\* passing the content on as it came (a faulty variant of inputContent)
inputContentAsIs(content) ==
    IF content.kind = "parts"
    THEN Parts([i \in 1..Len(content.parts) |-> convertPart(content.parts[i])])
    ELSE content

\* lines 183-196: string as it is, parts mapped, anything else ""
inputContent(content) ==
    IF content.kind = "string" THEN content
    ELSE IF content.kind = "parts"
    THEN Parts([i \in 1..Len(content.parts) |-> convertPart(content.parts[i])])
    ELSE Str("")

\* lines 174-198; only called for messages that are not instructions
convertMessageToInputItem(msg) ==
    [type |-> "message", role |-> msg.role, content |-> inputContent(msg.content)]

\* payload.reasoning_effort as the callee sees it: "" when there is none
effortOf(p) == IF Has(p, "reasoning_effort") THEN p.reasoning_effort ELSE ""

\* not excluding "none" (a faulty variant of buildReasoningConfig)
buildReasoningConfigAlways(effort) ==
    IF effort = "" THEN Undefined
    ELSE [kind |-> "config", effort |-> "medium", summary |-> "auto"]

\* lines 200-217
buildReasoningConfig(effort) ==
    IF effort = "" \/ effort = "none" THEN Undefined
    ELSE [kind |-> "config",
          effort |-> CASE effort \in {"minimal", "low"} -> "low"
                       [] effort = "medium" -> "medium"
                       [] effort \in {"high", "xhigh"} -> "high"
                       [] OTHER -> "medium",
          summary |-> "auto"]

\* the presence of the field taken for its value (a faulty variant of
\* streamFlag)
streamFlagPresence(p) == Has(p, "stream")

\* line 265: payload.stream ?? false
streamFlag(p) == IF Has(p, "stream") THEN p.stream ELSE FALSE

\* lines 254-302; the requests modelled carry no tools and no tool_choice,
\* for which lines 291-299 add nothing
convertToResponsesPayload(p) ==
    LET instructions == extractInstructions(p.messages)
        inputMessages ==
            LET kept == SelectSeq(p.messages, LAMBDA m : ~IsInstruction(m))
            IN [i \in 1..Len(kept) |-> convertMessageToInputItem(kept[i])]
        p0 == [model |-> p.model, input |-> inputMessages,
               stream |-> streamFlag(p), store |-> FALSE]
        p1 == IF instructions.kind = "string" /\ instructions.text # ""
              THEN With(p0, "instructions", instructions.text)
              ELSE p0
        reasoning == buildReasoningConfig(effortOf(p))
        p2 == IF reasoning # Undefined
              THEN With(With(p1, "reasoning",
                             [effort |-> reasoning.effort,
                              summary |-> reasoning.summary]),
                        "include", <<"reasoning.encrypted_content">>)
              ELSE p1
        p3 == IF TruthyNumber(p, "max_tokens")
              THEN With(p2, "max_output_tokens", p.max_tokens)
              ELSE p2
        p4 == IF Has(p, "temperature")
              THEN With(p3, "temperature", p.temperature)
              ELSE p3
    IN IF Has(p, "top_p") THEN With(p4, "top_p", p.top_p) ELSE p4

----------------------------------------------------------------------------
(* create-responses: convertResponseToChatCompletion *)

NoResponse == [object |-> "none"]

NoCompletion == [object |-> "none"]

\* String concatenation of a list of strings, left to right
RECURSIVE Concat(_)
Concat(texts) == IF texts = << >> THEN "" ELSE Head(texts) \o Concat(Tail(texts))

\* lines 310-341: what one output item adds to the extracted content
extractItem(item, result) ==
    CASE item.type = "message" ->
            [result EXCEPT !.textContent =
                @ \o Concat([i \in 1..Len(item.content) |-> item.content[i].text])]
      [] item.type = "reasoning" ->
            IF ~Has(item, "summary") THEN result
            ELSE [result EXCEPT !.reasoningContent =
                    @ \o Concat([i \in 1..Len(item.summary) |-> item.summary[i].text])]
      [] item.type = "function_call" ->
            [result EXCEPT !.toolCalls =
                Append(@, [id |-> item.call_id, type |-> "function",
                           function |-> [name |-> item.name,
                                         arguments |-> item.arguments]])]
      [] OTHER -> result

\* lines 354-373: the loop, from the content extracted so far
RECURSIVE extractOutputFrom(_, _)
extractOutputFrom(output, result) ==
    IF output = << >> THEN result
    ELSE extractOutputFrom(Tail(output), extractItem(Head(output), result))

\* lines 345-376
extractOutputContent(output) ==
    extractOutputFrom(output,
        [textContent |-> "", reasoningContent |-> "", toolCalls |-> << >>])

\* the status looked at first (a faulty variant of determineFinishReason)
determineFinishReasonStatusFirst(toolCalls, status) ==
    IF status = "incomplete" THEN "length"
    ELSE IF Len(toolCalls) > 0 THEN "tool_calls"
    ELSE "stop"

\* lines 378-389
determineFinishReason(toolCalls, status) ==
    IF Len(toolCalls) > 0 THEN "tool_calls"
    ELSE IF status = "incomplete" THEN "length"
    ELSE "stop"

\* lines 391-411
buildMessage(content) ==
    LET m0 == [role |-> "assistant",
               content |-> IF content.textContent # ""
                           THEN Str(content.textContent) ELSE NullContent]
        m1 == IF content.reasoningContent # ""
              THEN With(m0, "reasoning_content", content.reasoningContent)
              ELSE m0
    IN IF Len(content.toolCalls) > 0
       THEN With(m1, "tool_calls", content.toolCalls)
       ELSE m1

\* lines 413-420
buildUsage(res) ==
    IF ~Has(res, "usage") THEN Undefined
    ELSE [prompt_tokens |-> res.usage.input_tokens,
          completion_tokens |-> res.usage.output_tokens,
          total_tokens |-> res.usage.total_tokens]

\* lines 425-445
convertResponseToChatCompletion(res) ==
    LET content == extractOutputContent(res.output)
        finishReason == determineFinishReason(content.toolCalls, res.status)
        message == buildMessage(content)
    IN [id |-> res.id, object |-> "chat.completion", created |-> res.created_at,
        model |-> res.model,
        choices |-> << [index |-> 0, message |-> message, logprobs |-> "null",
                        finish_reason |-> finishReason] >>,
        usage |-> buildUsage(res)]

----------------------------------------------------------------------------
(* handleCompletion, handleResponsesApi: the steps *)

\* handler.ts lines 216-219: createResponses(convertToResponsesPayload(p))
callResponses(p) ==
    Append(backendCalls,
           [backend |-> "responses", payload |-> convertToResponsesPayload(p)])

\* handler.ts lines 162-166: createChatCompletions(payload)
callChatCompletions(p) ==
    Append(backendCalls, [backend |-> "chat", payload |-> p])

\* lines 51-89: the request is read and the model suffix parsed; the handler
\* then awaits the token count and the approval
ParseSuffix ==
    /\ stage = "received"
    /\ payload' = parseModelSuffix(payload)
    /\ stage' = "parsed"
    /\ UNCHANGED <<request, backendCalls, response, chatCompletion>>
    /\ UNCHANGED streamVars

\* lines 110-160: max_tokens default, effort conversion, backend selection,
\* and the call of the backend selected (lines 162-166, 215-219)
Forward ==
    /\ stage = "parsed"
    /\ payload' = convertEffort(defaultMaxTokens(payload))
    /\ IF supportsResponsesApi(payload'.model)
       THEN /\ backendCalls' = callResponses(payload')
            /\ stage' = "responses"
       ELSE /\ backendCalls' = callChatCompletions(payload')
            /\ stage' = "chat"
    /\ UNCHANGED <<request, response, chatCompletion>>
    /\ UNCHANGED streamVars

\* handler.ts lines 215-219: handleResponsesApi entered with a payload
handleResponsesApi ==
    /\ stage = "converting"
    /\ backendCalls' = callResponses(payload)
    /\ stage' = "responses"
    /\ UNCHANGED <<request, payload, response, chatCompletion>>
    /\ UNCHANGED streamVars

\* handler.ts lines 221-228: createResponses returned a response object
Respond ==
    /\ stage = "responses"
    /\ response # NoResponse
    /\ chatCompletion' = convertResponseToChatCompletion(response)
    /\ stage' = "answered"
    /\ UNCHANGED <<request, payload, backendCalls, response>>
    /\ UNCHANGED streamVars

\* the requests a client sends
ModelTails ==
    { << >>, <<"-">> \o Thinking, <<"-">> \o XHigh, <<"-">> \o High,
      <<"-">> \o Medium, <<"-">> \o Low, <<"-">> \o Minimal, <<"-">> \o None,
      <<"-">> \o High \o <<"-">> \o Low, High, <<"-">> \o High \o <<"x">>,
      <<"-">> }

ModelNames ==
    {b \o t : b \in {Claude4, ClaudeBare, Gpt5, Gpt4o, O1, Gemini}, t \in ModelTails}

Efforts == {"none", "minimal", "low", "medium", "high", "xhigh"}

MaxTokensValues == {0, 1000, 2000, 5127}

ThinkingBudgetValues == {0, 2048}

\* an optional field: << >> when the request does not carry it
Optional(values) == {<< >>} \cup {<<v>> : v \in values}

\* the messages of a request whose messages do not matter
DefaultMessages == << Message("user", Str("u")) >>

\* the JSON body {model, messages, reasoning_effort?, max_tokens?,
\* thinking_budget?}
Body(name, effort, maxTokens, budget) ==
    LET fields == {"model", "messages"}
                  \cup (IF effort # << >> THEN {"reasoning_effort"} ELSE {})
                  \cup (IF maxTokens # << >> THEN {"max_tokens"} ELSE {})
                  \cup (IF budget # << >> THEN {"thinking_budget"} ELSE {})
    IN [k \in fields |->
            CASE k = "model" -> name
              [] k = "messages" -> DefaultMessages
              [] k = "reasoning_effort" -> effort[1]
              [] k = "max_tokens" -> maxTokens[1]
              [] k = "thinking_budget" -> budget[1]]

Requests ==
    {Body(name, effort, maxTokens, budget) :
        name \in ModelNames,
        effort \in Optional(Efforts \cup {"ultra"}),
        maxTokens \in Optional(MaxTokensValues),
        budget \in Optional(ThinkingBudgetValues)}

\* p with the optional field k
Opt(p, k, o) == IF o = << >> THEN p ELSE With(p, k, o[1])

SeqsUpTo(S, n) == UNION {[1..k -> S] : k \in 0..n}

\* the messages a client sends
MessagePool ==
    { Message("system", Str("a")), Message("system", Str("")),
      Message("developer", Str("b")),
      Message("system", Parts(<<TextPart("c"), ImagePart("i"), TextPart("d")>>)),
      Message("user", Str("u")), Message("user", Str("")),
      Message("assistant", NullContent),
      Message("user", Parts(<<TextPart("t"), ImagePart("i")>>)) }

TemperatureValues == {0, 1}

\* the payload handleResponsesApi is entered with
ConvertBody(messages, effort, maxTokens, temperature, topP, stream) ==
    Opt(Opt(Opt(Opt(Opt([model |-> Gpt5, messages |-> messages],
                        "reasoning_effort", effort),
                    "max_tokens", maxTokens),
                "temperature", temperature),
            "top_p", topP),
        "stream", stream)

ConvertInputs ==
    {ConvertBody(messages, << >>, << >>, << >>, << >>, << >>) :
        messages \in SeqsUpTo(MessagePool, MaxMessages)}
    \cup
    {ConvertBody(DefaultMessages, effort, maxTokens, temperature, topP, stream) :
        effort \in Optional(Efforts \cup {"ultra"}),
        maxTokens \in Optional({0, 1000}),
        temperature \in Optional(TemperatureValues),
        topP \in Optional(TemperatureValues),
        stream \in Optional(BOOLEAN)}

\* the output items of a response object
MessageItem(texts) ==
    [type |-> "message",
     content |-> [i \in 1..Len(texts) |-> [type |-> "output_text", text |-> texts[i]]]]

CallItem(callId, name, arguments) ==
    [type |-> "function_call", call_id |-> callId, name |-> name,
     arguments |-> arguments]

ItemPool ==
    { MessageItem(<<"a", "b">>), MessageItem(<<"c">>), MessageItem(<< >>),
      [type |-> "reasoning", summary |-> << [type |-> "summary_text", text |-> "r"] >>],
      [type |-> "reasoning"],
      CallItem("c1", "f", "x"), CallItem("c2", "g", ""),
      [type |-> "web_search_call"] }

Usage == [input_tokens |-> 3, output_tokens |-> 4, total_tokens |-> 7]

ResponseObjects ==
    {Opt([object |-> "response", id |-> "resp1", created_at |-> 7,
          status |-> status, model |-> "gpt-5", output |-> output],
         "usage", usage) :
        status \in {"completed", "incomplete", "failed"},
        output \in SeqsUpTo(ItemPool, MaxItems),
        usage \in Optional({Usage})}

----------------------------------------------------------------------------

\* processResponseStream, lines 242-247, called with a model name and an
\* upstream of n events
Start(n) ==
    /\ \E m \in InitModels :
          state = [responseId |-> "", model |-> m, toolCalls |-> << >>,
                   roleEmitted |-> FALSE]
    /\ out = << >>
    /\ pc = "run"
    /\ now = 0
    /\ connected = TRUE
    /\ upstream = n
    /\ consumed = << >>
    /\ consumedAtAbort = 0
    /\ request = NoPayload
    /\ payload = NoPayload
    /\ stage = "streaming"
    /\ backendCalls = << >>
    /\ response = NoResponse
    /\ chatCompletion = NoCompletion

Init == \E n \in 0..MaxEvents : Start(n)

Next ==
    \/ \E e \in Events :
          \/ EndMarker(e)
          \/ ParseError(e)
          \/ CreatedEvent(e)
          \/ CompletedEvent(e)
          \/ ReasoningDelta(e)
          \/ OutputTextDelta(e)
          \/ FunctionCallDelta(e)
          \/ FunctionCallCreated(e)
          \/ OtherItemAdded(e)
          \/ OutputItemDone(e)
          \/ IgnoredEvent(e)
    \/ EndOfUpstream

Spec == Init /\ [][Next]_vars

\* the same loop with a consumer that may disconnect
NextCancel == Next \/ Disconnect

SpecCancel == Init /\ [][NextCancel]_vars

\* the same loop with a clock that advances between events
NextClock == Next \/ Tick

SpecClock == Init /\ [][NextClock]_vars

\* the loop fed only lifecycle, output-text and item-done events
TextEvents == {Created1, TextA, TextB, MessageDone, CallDone, Completed}

InitText == \E n \in 0..MaxTextEvents : Start(n)

NextText ==
    \/ \E e \in TextEvents :
          \/ CreatedEvent(e)
          \/ CompletedEvent(e)
          \/ OutputTextDelta(e)
          \/ OutputItemDone(e)
    \/ EndOfUpstream

SpecText == InitText /\ [][NextText]_vars

\* handleCompletion on one request
InitRequest ==
    /\ request \in Requests
    /\ payload = request
    /\ stage = "received"
    /\ backendCalls = << >>
    /\ response = NoResponse
    /\ chatCompletion = NoCompletion
    /\ state = [responseId |-> "", model |-> "", toolCalls |-> << >>,
                roleEmitted |-> FALSE]
    /\ out = << >>
    /\ pc = "idle"
    /\ now = 0
    /\ connected = TRUE
    /\ upstream = 0
    /\ consumed = << >>
    /\ consumedAtAbort = 0

NextRequest == ParseSuffix \/ Forward

SpecRequest == InitRequest /\ [][NextRequest]_vars

\* the stream loop at rest, for the specifications without a stream
StreamIdle ==
    /\ state = [responseId |-> "", model |-> "", toolCalls |-> << >>,
                roleEmitted |-> FALSE]
    /\ out = << >>
    /\ pc = "idle"
    /\ now = 0
    /\ connected = TRUE
    /\ upstream = 0
    /\ consumed = << >>
    /\ consumedAtAbort = 0

\* handleResponsesApi on one payload, up to the call of the backend
InitConvert ==
    /\ request \in ConvertInputs
    /\ payload = request
    /\ stage = "converting"
    /\ backendCalls = << >>
    /\ response = NoResponse
    /\ chatCompletion = NoCompletion
    /\ StreamIdle

NextConvert == handleResponsesApi

SpecConvert == InitConvert /\ [][NextConvert]_vars

\* handleResponsesApi from the return of a non-streaming createResponses
InitResponse ==
    /\ request = NoPayload
    /\ payload = NoPayload
    /\ stage = "responses"
    /\ backendCalls = << >>
    /\ response \in ResponseObjects
    /\ chatCompletion = NoCompletion
    /\ StreamIdle

NextResponse == Respond

SpecResponse == InitResponse /\ [][NextResponse]_vars

----------------------------------------------------------------------------
(* Properties of processResponseStream *)

IsChunk(x) == x.kind = "chunk"

IsRoleChunk(x) == IsChunk(x) /\ x.delta = RoleDelta

IsFinishChunk(x) == IsChunk(x) /\ x.finish_reason # "null"

\* a reasoning, text or tool-call chunk
IsContentBearing(x) ==
    /\ IsChunk(x)
    /\ x.delta # RoleDelta
    /\ DOMAIN x.delta \cap {"reasoning_content", "content", "tool_calls"} # {}

Positions(P(_)) == {i \in 1..Len(out) : P(out[i])}

IsSentinel(x) == x = Sentinel

IsMalformed(e) == e.data = "bad"

IsEndMarker(e) == e.data = "" \/ e.data = "[DONE]"

IsCompleted(e) ==
    /\ e.data = "json"
    /\ e.event \in {"response.completed", "response.done"}

Last(seq) == seq[Len(seq)]

\* C1: when processResponseStream has returned, the output holds exactly one
\* "[DONE]" sentinel and that sentinel is the last item written.
C1_ExactlyOneSentinelLast ==
    pc = "done" =>
        /\ Cardinality(Positions(IsSentinel)) = 1
        /\ Last(out) = Sentinel

\* C2: an end-of-stream marker or a completed/done event is the last event
\* the loop processes: no upstream event is received after it.
C2_StopsAfterSentinel ==
    \A i \in 1..Len(consumed) :
        (IsEndMarker(consumed[i]) \/ IsCompleted(consumed[i])) => i = Len(consumed)

\* C3: the role-announcement chunk is written at most once; when the stream
\* has a content-bearing chunk (reasoning, text, tool call) the role chunk is
\* the item written immediately before the first of them, and it is written
\* exactly when roleEmitted is set.
C3_RoleOnceBeforeContent ==
    LET roles == Positions(IsRoleChunk)
        content == Positions(IsContentBearing)
    IN /\ Cardinality(roles) <= 1
       /\ content # {} =>
            roles = {(CHOOSE i \in content : \A j \in content : i <= j) - 1}
       /\ roles # {} => content # {}
       /\ state.roleEmitted <=> roles # {}

\* C3 witness: a role chunk followed by content chunks of two kinds, with a
\* third event handled after them
C3_Witness ==
    /\ Len(consumed) = 3
    /\ IsRoleChunk(out[1])
    /\ \E i, j \in Positions(IsContentBearing) :
          /\ i < j
          /\ "reasoning_content" \in DOMAIN out[i].delta
          /\ "tool_calls" \in DOMAIN out[j].delta

\* C4: all chunks written during one call carry the same id and the same
\* model, and the id is the captured response id once one has been captured.
C4_SameIdAndModel ==
    \A i, j \in Positions(IsChunk) :
        /\ out[i].id = out[j].id
        /\ out[i].model = out[j].model
        /\ state.responseId # "" => out[i].id = [response |-> state.responseId]

\* the upstream sequence [created, d1..dn, output_item.done(message), completed]
IsTextScenario(h) ==
    /\ Len(h) >= 4
    /\ h[1].data = "json" /\ h[1].event = "response.created"
    /\ \A i \in 2..(Len(h) - 2) :
          h[i].data = "json" /\ h[i].event = "response.output_text.delta"
    /\ h[Len(h) - 1].data = "json"
    /\ h[Len(h) - 1].event = "response.output_item.done"
    /\ h[Len(h) - 1].itemType = "message"
    /\ IsCompleted(h[Len(h)])

RECURSIVE ContentOf(_)
\* the concatenation of the content fields of the chunks of a sequence
ContentOf(seq) ==
    IF seq = << >> THEN ""
    ELSE (IF IsChunk(seq[1]) /\ "content" \in DOMAIN seq[1].delta
          THEN seq[1].delta.content ELSE "") \o ContentOf(Tail(seq))

RECURSIVE DeltasOf(_)
\* the concatenation of the delta fields of a sequence of events
DeltasOf(h) == IF h = << >> THEN "" ELSE h[1].delta \o DeltasOf(Tail(h))

\* C5: for the upstream sequence [created, d1..dn, output_item.done(message),
\* completed] (n >= 1) the output is exactly: the role chunk, n content chunks
\* where the i-th carries d_i, one finish chunk with finish_reason "stop",
\* then the sentinel; the written content concatenates to d1 + ... + dn.
C5_TextStream ==
    IsTextScenario(consumed) =>
        LET n == Len(consumed) - 3
        IN /\ Len(out) = n + 3
           /\ IsRoleChunk(out[1]) /\ out[1].finish_reason = "null"
           /\ \A i \in 1..n :
                 /\ IsChunk(out[i + 1])
                 /\ out[i + 1].delta = [content |-> consumed[i + 1].delta]
                 /\ out[i + 1].finish_reason = "null"
           /\ IsChunk(out[n + 2])
           /\ out[n + 2].delta = << >>
           /\ out[n + 2].finish_reason = "stop"
           /\ out[n + 3] = Sentinel
           /\ ContentOf(out) = DeltasOf(SubSeq(consumed, 2, n + 1))

\* C5 witness: created, "a", "b", done(message), completed has been processed
C5_Witness ==
    /\ consumed = <<Created1, TextA, TextB, MessageDone, Completed>>
    /\ Len(out) = 5

\* the tool-call chunks written for accumulator index k
RECURSIVE FragmentsFor(_, _)
FragmentsFor(seq, k) ==
    IF seq = << >> THEN ""
    ELSE (IF /\ IsChunk(seq[1])
             /\ "tool_calls" \in DOMAIN seq[1].delta
             /\ seq[1].delta.tool_calls[1].index = k
          THEN seq[1].delta.tool_calls[1].function.arguments ELSE "")
         \o FragmentsFor(Tail(seq), k)

\* C6: after a function_call_arguments.delta event the last item written is
\* one chunk whose tool-call delta carries the index of the most recently
\* appended accumulator and only this event's fragment; and at every point,
\* for each index, the fragments written for it concatenate to that
\* accumulator's argument buffer.
C6_ArgumentFragments ==
    /\ (/\ consumed # << >>
        /\ Last(consumed).data = "json"
        /\ Last(consumed).event = "response.function_call_arguments.delta")
       => /\ state.toolCalls # << >>
          /\ IsChunk(Last(out))
          /\ Last(out).delta =
                [tool_calls |->
                    << [index |-> Len(state.toolCalls) - 1,
                        function |-> [arguments |-> Last(consumed).delta]] >>]
    /\ \A k \in 1..Len(state.toolCalls) :
          /\ state.toolCalls[k].index = k - 1
          /\ FragmentsFor(out, k - 1) = state.toolCalls[k].arguments

\* C6 witness: two fragments have gone to the same accumulator
C6_Witness ==
    /\ consumed = <<CallAdded, ArgsX, ArgsX>>
    /\ state.toolCalls[1].arguments = "xx"

\* C7: receiving an event whose data is not valid JSON writes nothing, leaves
\* StreamState unchanged and leaves the loop running, so the events after it
\* are handled from the state the loop had before it.
C7_MalformedSkipped ==
    [][(consumed' # consumed /\ IsMalformed(Last(consumed')))
         => (state' = state /\ out' = out /\ pc' = pc /\ pc = "run")]_vars

\* C7 witness: a valid event was handled after a malformed one
C7_Witness ==
    /\ Len(consumed) = 3
    /\ IsMalformed(consumed[2])
    /\ consumed[3] = TextA
    /\ IsChunk(Last(out)) /\ Last(out).delta = [content |-> "a"]

\* C8: once the consumer has disconnected the loop receives no upstream event
\* beyond the one whose request was already in flight.
C8_StopsOnDisconnect ==
    ~connected => Len(consumed) <= consumedAtAbort + 1

----------------------------------------------------------------------------
(* Properties of handleCompletion *)

SuffixWords == {Thinking, XHigh, High, Medium, Low, Minimal, None}

\* the effort level a suffix word stands for
LevelOf(word) ==
    CASE word \in {Thinking, High} -> "high"
      [] word = XHigh -> "xhigh"
      [] word = Medium -> "medium"
      [] word = Low -> "low"
      [] word = Minimal -> "minimal"
      [] word = None -> "none"

Prefixes(str) == {SubSeq(str, 1, n) : n \in 0..Len(str)}

\* the ways to read a name as base, hyphen, suffix word
Splits(name) ==
    {sp \in Prefixes(name) \X SuffixWords : name = sp[1] \o <<"-">> \o sp[2]}

\* C9: after suffix parsing, a name that ends with a hyphen and a suffix word
\* has lost exactly that one suffix and its hyphen, and reasoning_effort is
\* the level the word stands for (replacing a supplied one); any other
\* request is exactly as it was received.
C9_SuffixParsed ==
    stage = "parsed" =>
        IF Splits(request.model) = {} THEN payload = request
        ELSE \E sp \in Splits(request.model) :
                payload = With(With(request, "model", sp[1]),
                               "reasoning_effort", LevelOf(sp[2]))

\* C9 witness: of two suffixes only the last is stripped, and the supplied
\* effort is replaced
C9_Witness ==
    /\ stage = "parsed"
    /\ request.model = Claude4 \o <<"-">> \o High \o <<"-">> \o Low
    /\ Has(request, "reasoning_effort") /\ request.reasoning_effort = "medium"
    /\ payload.model = Claude4 \o <<"-">> \o High
    /\ payload.reasoning_effort = "low"

\* the tenths of max_tokens an effort level stands for
RatioTenths(effort) ==
    CASE effort = "minimal" -> 1
      [] effort = "low" -> 2
      [] effort = "medium" -> 4
      [] effort = "high" -> 6
      [] effort = "xhigh" -> 8

\* b = max(1024, floor(m * tenths / 10))
IsBudget(b, m, tenths) ==
    /\ b >= 1024
    /\ b > 1024 => (10 * b <= m * tenths /\ m * tenths < 10 * b + 10)
    /\ b = 1024 => m * tenths < 10250

\* a parsed payload for a numeric-budget target with an effort level and no
\* explicit thinking_budget
DerivesBudget(p) ==
    /\ startsWith(p.model, ClaudeBare)
    /\ Has(p, "reasoning_effort") /\ p.reasoning_effort \in Efforts
    /\ ~Has(p, "thinking_budget")

\* M: max_tokens of the request or else the selected model's capability
BudgetBase(p) ==
    IF Has(p, "max_tokens") THEN {p.max_tokens} ELSE maxOutputTokens(p.model)

\* C10 as stated: thinking_budget is max(1024, floor(M * ratio)); none or an
\* absent M set no thinking_budget; reasoning_effort is removed.
C10_BudgetAsStated ==
    [][(stage = "parsed" /\ stage' # "parsed" /\ DerivesBudget(payload)) =>
        /\ ~Has(payload', "reasoning_effort")
        /\ IF payload.reasoning_effort = "none" \/ BudgetBase(payload) = {}
           THEN ~Has(payload', "thinking_budget")
           ELSE /\ Has(payload', "thinking_budget")
                /\ \E m \in BudgetBase(payload) :
                      IsBudget(payload'.thinking_budget, m,
                               RatioTenths(payload.reasoning_effort))]_vars

\* C10 amended: as stated, except that a max_tokens of 0 sets no
\* thinking_budget either.
C10_BudgetDerived ==
    [][(stage = "parsed" /\ stage' # "parsed" /\ DerivesBudget(payload)) =>
        /\ ~Has(payload', "reasoning_effort")
        /\ IF \/ payload.reasoning_effort = "none"
              \/ BudgetBase(payload) \subseteq {0}
           THEN ~Has(payload', "thinking_budget")
           ELSE /\ Has(payload', "thinking_budget")
                /\ \E m \in BudgetBase(payload) :
                      IsBudget(payload'.thinking_budget, m,
                               RatioTenths(payload.reasoning_effort))]_vars

\* C10 witness: -high on a claude model with max_tokens 2000 forwards a
\* thinking_budget of 1200 and no reasoning_effort
C10_Witness ==
    /\ stage = "chat"
    /\ request = Body(Claude4 \o <<"-">> \o High, << >>, <<2000>>, << >>)
    /\ payload.thinking_budget = 1200
    /\ ~Has(payload, "reasoning_effort")

----------------------------------------------------------------------------
(* Properties of the backend call *)

\* the name a request's model has once a suffix is stripped
StrippedNames(name) ==
    IF Splits(name) = {} THEN {name} ELSE {sp[1] : sp \in Splits(name)}

\* a numeric-budget target
IsClaude(name) == Len(name) >= 6 /\ SubSeq(name, 1, 6) = ClaudeBare

Called == stage \in {"responses", "chat"}

\* C11: for a request whose stripped model name starts with "claude", no
\* payload passed to a backend carries both reasoning_effort and
\* thinking_budget, whatever the client supplied.
C11_EffortOrBudget ==
    (Called /\ \E name \in StrippedNames(request.model) : IsClaude(name)) =>
        \A i \in 1..Len(backendCalls) :
            ~(/\ Has(backendCalls[i].payload, "reasoning_effort")
              /\ Has(backendCalls[i].payload, "thinking_budget"))

\* the allow-list rule: the name is an entry, or an entry, a hyphen and more
OnAllowList(name) ==
    \E entry \in RESPONSES_API_MODELS :
        \/ name = entry
        \/ /\ Len(name) > Len(entry)
           /\ SubSeq(name, 1, Len(entry) + 1) = entry \o <<"-">>

\* C12: no backend is called before the suffix is stripped and the backend
\* selected; then exactly one call has been made: to the Responses backend
\* with the converted payload when the stripped name is on the allow-list,
\* otherwise to the Chat Completions backend with the payload unconverted.
C12_BackendSelectedOnce ==
    /\ Len(backendCalls) <= 1
    /\ stage \in {"received", "parsed"} => backendCalls = << >>
    /\ Called =>
        /\ Len(backendCalls) = 1
        /\ \E name \in StrippedNames(request.model) :
              /\ payload.model = name
              /\ backendCalls[1].backend =
                    IF OnAllowList(name) THEN "responses" ELSE "chat"
        /\ backendCalls[1].backend = "responses" =>
              /\ DOMAIN backendCalls[1].payload \cap {"messages", "input"} = {"input"}
              /\ backendCalls[1].payload = convertToResponsesPayload(payload)
        /\ backendCalls[1].backend = "chat" => backendCalls[1].payload = payload

\* C12 witness: gpt-5-high goes to the Responses backend as gpt-5, o1high to
\* Chat Completions under its own name
C12_Witness ==
    /\ Called
    /\ \/ /\ request.model = Gpt5 \o <<"-">> \o High
          /\ backendCalls[1].backend = "responses"
          /\ backendCalls[1].payload.model = Gpt5
       \/ /\ request.model = O1 \o High
          /\ backendCalls[1].backend = "chat"

----------------------------------------------------------------------------
(* Properties of convertToResponsesPayload *)

\* the payload createResponses was called with
Sent == backendCalls[1].payload

Converted == stage = "responses" /\ Len(backendCalls) = 1

\* the system and developer messages of a list, in order
InstructionMessages(messages) ==
    SelectSeq(messages, LAMBDA m : m.role \in {"system", "developer"})

\* the user and assistant messages of a list, in order
ConversationMessages(messages) ==
    SelectSeq(messages, LAMBDA m : m.role \in {"user", "assistant"})

\* the text of a message: its string, or the texts of its text parts, one
\* per line
TextOf(msg) ==
    CASE msg.content.kind = "string" -> msg.content.text
      [] msg.content.kind = "parts" ->
            LET ps == SelectSeq(msg.content.parts, LAMBDA p : p.type = "text")
            IN Join([i \in 1..Len(ps) |-> ps[i].text], "\n")
      [] OTHER -> ""

\* the texts of the system and developer messages, joined with newlines
JoinedInstructions(messages) ==
    LET ms == InstructionMessages(messages)
    IN Join([i \in 1..Len(ms) |-> TextOf(ms[i])], "\n")

\* C13: instructions equals the texts of all system/developer messages of
\* the request joined with a newline in their order, empty texts included,
\* whatever user/assistant messages stand between them.  (An instructions
\* field that would be the empty string may be left out.)
C13_InstructionsJoined ==
    Converted =>
        IF InstructionMessages(payload.messages) = << >>
        THEN ~Has(Sent, "instructions")
        ELSE IF Has(Sent, "instructions")
        THEN Sent.instructions = JoinedInstructions(payload.messages)
        ELSE JoinedInstructions(payload.messages) = ""

\* C14: when every message of the request has role user or assistant, the
\* payload sent has no instructions field and its input holds one item per
\* message, in order, with the message's role and a content that is a string
\* or a list of parts: the message's own string, and "" for a missing one.
C14_InputItems ==
    (Converted /\ InstructionMessages(payload.messages) = << >>) =>
        /\ ~Has(Sent, "instructions")
        /\ Len(Sent.input) = Len(payload.messages)
        /\ \A i \in 1..Len(payload.messages) :
              LET msg == payload.messages[i]
                  item == Sent.input[i]
              IN /\ item.role = msg.role
                 /\ item.content.kind \in {"string", "parts"}
                 /\ msg.content.kind = "string" => item.content = msg.content
                 /\ msg.content.kind = "null" => item.content = Str("")
                 /\ msg.content.kind = "parts" =>
                        Len(item.content.parts) = Len(msg.content.parts)

\* C14 witness: a user text, an assistant message without content and an
\* empty user text become three items, the last two with content ""
C14_Witness ==
    /\ Converted
    /\ payload.messages = << Message("user", Str("u")),
                             Message("assistant", NullContent),
                             Message("user", Str("")) >>
    /\ Len(Sent.input) = 3
    /\ Sent.input[2] = [type |-> "message", role |-> "assistant", content |-> Str("")]
    /\ Sent.input[3].content = Str("")

----------------------------------------------------------------------------
(* Properties of convertResponseToChatCompletion *)

Answered == stage = "answered"

ItemsOfType(output, type) == SelectSeq(output, LAMBDA item : item.type = type)

\* the text of all message items, in output order
MessageText(output) ==
    LET ms == ItemsOfType(output, "message")
    IN Concat([i \in 1..Len(ms) |->
                  Concat([j \in 1..Len(ms[i].content) |-> ms[i].content[j].text])])

\* C15: the chat completion of a response object has finish_reason
\* tool_calls when the output has a function_call item, else length when the
\* status is incomplete, else stop; its content is the text of the message
\* items concatenated in order, null when that is empty; its tool_calls are
\* the function_call items in order, and absent when there is none.
C15_ChatCompletion ==
    Answered =>
        LET calls == ItemsOfType(response.output, "function_call")
            text == MessageText(response.output)
            choice == chatCompletion.choices[1]
        IN /\ Len(chatCompletion.choices) = 1
           /\ choice.finish_reason =
                 IF Len(calls) > 0 THEN "tool_calls"
                 ELSE IF response.status = "incomplete" THEN "length"
                 ELSE "stop"
           /\ choice.message.content =
                 IF text = "" THEN NullContent ELSE Str(text)
           /\ Has(choice.message, "tool_calls") <=> Len(calls) > 0
           /\ Len(calls) > 0 =>
                 /\ Len(choice.message.tool_calls) = Len(calls)
                 /\ \A i \in 1..Len(calls) :
                       choice.message.tool_calls[i] =
                          [id |-> calls[i].call_id, type |-> "function",
                           function |-> [name |-> calls[i].name,
                                         arguments |-> calls[i].arguments]]

\* C15 witness: an incomplete response with a message and a function call
\* finishes with tool_calls, content "ab" and one tool call
C15_Witness ==
    /\ Answered
    /\ response.status = "incomplete"
    /\ response.output = << MessageItem(<<"a", "b">>), CallItem("c1", "f", "x") >>
    /\ chatCompletion.choices[1].finish_reason = "tool_calls"
    /\ chatCompletion.choices[1].message.content = Str("ab")
    /\ Len(chatCompletion.choices[1].message.tool_calls) = 1

----------------------------------------------------------------------------
(* Properties of the scalar fields and of the reasoning config *)

\* source field, field of the payload sent
ScalarFields ==
    { <<"temperature", "temperature">>, <<"top_p", "top_p">>,
      <<"max_tokens", "max_output_tokens">>, <<"stream", "stream">> }

Copied(from, to) ==
    /\ Has(Sent, to) <=> Has(payload, from)
    /\ Has(Sent, to) => Sent[to] = payload[from]

\* C16 as stated: temperature, top_p, max_output_tokens and stream are in
\* the payload sent exactly when temperature, top_p, max_tokens and stream
\* are in the request, with the same value; store is false.
C16_ScalarsAsStated ==
    Converted =>
        /\ \A f \in ScalarFields : Copied(f[1], f[2])
        /\ Sent.store = FALSE

\* C16 amended: temperature and top_p are copied exactly when present, 0
\* included; max_output_tokens is max_tokens exactly when that is present
\* and not 0; stream is always present, the request's flag or else false;
\* store is false.
C16_ScalarsCopied ==
    Converted =>
        /\ Copied("temperature", "temperature")
        /\ Copied("top_p", "top_p")
        /\ Has(Sent, "max_output_tokens") <=>
              (Has(payload, "max_tokens") /\ payload.max_tokens # 0)
        /\ Has(Sent, "max_output_tokens") =>
              Sent.max_output_tokens = payload.max_tokens
        /\ Has(Sent, "stream")
        /\ Sent.stream = IF Has(payload, "stream") THEN payload.stream ELSE FALSE
        /\ Sent.store = FALSE

\* C16 witness: temperature 0 is copied, max_tokens 0 is not, and a request
\* without stream is sent with stream false
C16_Witness ==
    /\ Converted
    /\ Has(payload, "temperature") /\ payload.temperature = 0
    /\ Has(payload, "max_tokens") /\ payload.max_tokens = 0
    /\ ~Has(payload, "stream")
    /\ Sent.temperature = 0
    /\ ~Has(Sent, "max_output_tokens")
    /\ Sent.stream = FALSE

\* the effort level a request asks for: the one its model suffix stands for,
\* or else its reasoning_effort
EffortAsked(req) ==
    IF Splits(req.model) # {} THEN {LevelOf(sp[2]) : sp \in Splits(req.model)}
    ELSE IF Has(req, "reasoning_effort") THEN {req.reasoning_effort}
    ELSE {}

CoarseLevel(effort) ==
    CASE effort \in {"minimal", "low"} -> "low"
      [] effort = "medium" -> "medium"
      [] effort \in {"high", "xhigh"} -> "high"

\* C17: a payload sent to the Responses backend carries a reasoning config
\* and the include entry "reasoning.encrypted_content" exactly when the
\* request asks for an effort level other than none; the config has summary
\* auto and effort low for minimal and low, medium for medium, high for high
\* and xhigh.  A request asking for none, by field or by suffix, and
\* supplying no thinking_budget is sent with neither a thinking_budget nor a
\* reasoning field, whichever the backend.
C17_ReasoningConfig ==
    Called =>
        /\ backendCalls[1].backend = "responses" =>
              /\ Has(Sent, "reasoning") <=> EffortAsked(request) \ {"none"} # {}
              /\ Has(Sent, "include") <=> Has(Sent, "reasoning")
              /\ Has(Sent, "reasoning") =>
                    /\ Sent.include = <<"reasoning.encrypted_content">>
                    /\ Sent.reasoning.summary = "auto"
                    /\ \A effort \in EffortAsked(request) \cap Efforts :
                          Sent.reasoning.effort = CoarseLevel(effort)
        /\ (EffortAsked(request) = {"none"} /\ ~Has(request, "thinking_budget")) =>
              DOMAIN Sent \cap {"reasoning", "thinking_budget"} = {}

\* C17 witness: gpt-5-xhigh is sent with effort high, and o1-none with no
\* reasoning field
C17_Witness ==
    /\ Called
    /\ \/ /\ request.model = Gpt5 \o <<"-">> \o XHigh
          /\ Sent.reasoning = [effort |-> "high", summary |-> "auto"]
          /\ Sent.include = <<"reasoning.encrypted_content">>
       \/ /\ request.model = O1 \o <<"-">> \o None
          /\ backendCalls[1].backend = "responses"
          /\ ~Has(Sent, "reasoning")

----------------------------------------------------------------------------
(* Properties of StreamState *)

\* the step receives an event, which is then Last(consumed')
ReceivesEvent == Len(consumed') = Len(consumed) + 1

\* C18: once responseId is set, no later event changes it; once model is
\* non-empty, no event changes it.
C18_FirstWriterWins ==
    [][/\ state.responseId # "" => state'.responseId = state.responseId
       /\ state.model # "" => state'.model = state.model]_vars

IsCallAdded(e) ==
    /\ e.data = "json"
    /\ e.event = "response.output_item.added"
    /\ e.itemType = "function_call"

\* C19: toolCalls never shrinks; the entry at position i has index i; a
\* function-call output_item.added event appends an entry with the previous
\* length as index, the event's call id and name and empty arguments; no
\* step changes an entry other than the last, and of the last only its
\* arguments.
C19_ToolCallsAppendOnly ==
    [][LET old == state.toolCalls
           new == state'.toolCalls
           n == Len(old)
       IN /\ Len(new) >= n
          /\ \A i \in 1..Len(new) : new[i].index = i - 1
          /\ \A i \in 1..n : (i < n \/ Len(new) > n) => new[i] = old[i]
          /\ (n >= 1 /\ Len(new) = n) =>
                [new[n] EXCEPT !.arguments = old[n].arguments] = old[n]
          /\ (ReceivesEvent /\ IsCallAdded(Last(consumed'))) =>
                new = Append(old, [index |-> n,
                                   id |-> Last(consumed').call_id,
                                   type |-> "function",
                                   name |-> Last(consumed').name,
                                   arguments |-> ""])]_vars

\* C19 witness: two calls were added and an arguments delta went to the
\* second
C19_Witness ==
    /\ Len(state.toolCalls) = 2
    /\ state.toolCalls[1] = [index |-> 0, id |-> "c1", type |-> "function",
                             name |-> "f", arguments |-> ""]
    /\ state.toolCalls[2].index = 1
    /\ state.toolCalls[2].arguments = "x"

IsItemDone(e) ==
    /\ e.data = "json"
    /\ e.event = "response.output_item.done"

\* C20: an output_item.done event writes one chunk with an empty delta and
\* finish_reason stop for a message item, tool_calls for a function_call
\* item, and nothing for any other item; it writes no role chunk and leaves
\* StreamState as it was.
C20_ItemDone ==
    [][(ReceivesEvent /\ IsItemDone(Last(consumed'))) =>
        LET e == Last(consumed')
            written == SubSeq(out', Len(out) + 1, Len(out'))
        IN /\ state' = state
           /\ Len(out') >= Len(out)
           /\ SubSeq(out', 1, Len(out)) = out
           /\ IF e.itemType \in {"message", "function_call"}
              THEN /\ Len(written) = 1
                   /\ IsChunk(written[1])
                   /\ DOMAIN written[1].delta = {}
                   /\ written[1].finish_reason =
                         IF e.itemType = "message" THEN "stop" ELSE "tool_calls"
              ELSE written = << >>]_vars

\* C20 witness: a message, a function call and a reasoning item are done
\* before anything else: two finish chunks, no role chunk
C20_Witness ==
    /\ consumed = <<MessageDone, CallDone, ReasoningDone>>
    /\ Len(out) = 2
    /\ out[1].finish_reason = "stop"
    /\ out[2].finish_reason = "tool_calls"
    /\ ~state.roleEmitted

----------------------------------------------------------------------------
(* Properties of the loop as a whole *)

RecognisedEvents ==
    { "response.created", "response.in_progress", "response.completed",
      "response.done", "response.reasoning_summary_text.delta",
      "response.reasoning.delta", "response.output_text.delta",
      "response.content_part.delta", "response.function_call_arguments.delta",
      "response.output_item.added", "response.output_item.done" }

RecognisedTypes ==
    { "response.reasoning_summary_text.delta", "response.output_text.delta" }

\* valid JSON that is none of the recognised cases, or an added item that is
\* not a function call
IsUnrecognised(e) ==
    /\ e.data = "json"
    /\ e.type \notin RecognisedTypes
    /\ \/ e.event \notin RecognisedEvents
       \/ e.event = "response.output_item.added" /\ e.itemType # "function_call"

\* C21: an event with valid JSON that matches no recognised case, and an
\* output_item.added event whose item is not a function call, writes
\* nothing, leaves StreamState unchanged and leaves the loop running.
C21_UnrecognisedIgnored ==
    [][(ReceivesEvent /\ IsUnrecognised(Last(consumed'))) =>
        /\ out' = out
        /\ state' = state
        /\ pc' = "run"]_vars

\* C21 witness: an unknown event and an added message item are passed over
\* and the text delta after them is handled as the first event would be
C21_Witness ==
    /\ consumed = <<Unknown, MessageAdded, TextA>>
    /\ Len(out) = 2
    /\ IsRoleChunk(out[1])
    /\ out[2].delta = [content |-> "a"]
    /\ pc = "run"

\* what an event makes the loop write, apart from the role chunk: nothing
\* (<< >>), or one item named by its kind and what it carries
EventTag(e) ==
    IF IsEndMarker(e) \/ IsCompleted(e) THEN << <<"done", "">> >>
    ELSE IF e.data # "json" \/ e.event \in {"response.created", "response.in_progress"}
    THEN << >>
    ELSE IF \/ e.event \in {"response.reasoning_summary_text.delta",
                            "response.reasoning.delta"}
            \/ e.type = "response.reasoning_summary_text.delta"
    THEN << <<"reasoning", e.delta>> >>
    ELSE IF \/ e.event \in {"response.output_text.delta",
                            "response.content_part.delta"}
            \/ e.type = "response.output_text.delta"
    THEN << <<"text", e.delta>> >>
    ELSE IF e.event = "response.function_call_arguments.delta"
    THEN << <<"arguments", e.delta>> >>
    ELSE IF IsCallAdded(e) THEN << <<"call", e.call_id>> >>
    ELSE IF IsItemDone(e) /\ e.itemType = "message" THEN << <<"finish", "stop">> >>
    ELSE IF IsItemDone(e) /\ e.itemType = "function_call"
    THEN << <<"finish", "tool_calls">> >>
    ELSE << >>

\* the same naming for an item written downstream; << >> for the role chunk
ChunkTag(x) ==
    IF x = Sentinel THEN << <<"done", "">> >>
    ELSE IF IsRoleChunk(x) THEN << >>
    ELSE IF IsFinishChunk(x) THEN << <<"finish", x.finish_reason>> >>
    ELSE IF "reasoning_content" \in DOMAIN x.delta
    THEN << <<"reasoning", x.delta.reasoning_content>> >>
    ELSE IF "content" \in DOMAIN x.delta THEN << <<"text", x.delta.content>> >>
    ELSE IF "id" \in DOMAIN x.delta.tool_calls[1]
    THEN << <<"call", x.delta.tool_calls[1].id>> >>
    ELSE << <<"arguments", x.delta.tool_calls[1].function.arguments>> >>

RECURSIVE EventTags(_)
EventTags(events) ==
    IF events = << >> THEN << >>
    ELSE EventTag(Head(events)) \o EventTags(Tail(events))

RECURSIVE ChunkTags(_)
ChunkTags(items) ==
    IF items = << >> THEN << >>
    ELSE ChunkTag(Head(items)) \o ChunkTags(Tail(items))

\* what has been written is, item for item and in the same order, what the
\* events received so far give rise to
InEventOrder == ChunkTags(out) = EventTags(consumed)

\* a step writes only while it handles the event it has received, adds to
\* the end of what was written before, and adds what that event gives rise
\* to: at most the role chunk followed by one more item
WritesForItsEvent ==
    LET written == SubSeq(out', Len(out) + 1, Len(out'))
    IN /\ Len(out') >= Len(out)
       /\ SubSeq(out', 1, Len(out)) = out
       /\ out' # out => ReceivesEvent
       /\ ChunkTags(written) = (IF ReceivesEvent
                                THEN EventTag(Last(consumed')) ELSE << >>)
       /\ Len(written) <= 2
       /\ Len(written) = 2 => IsRoleChunk(written[1])

----------------------------------------------------------------------------
(* Properties of the thinking budget *)

\* the request is for a numeric-budget target
ForClaude(req) == \E name \in StrippedNames(req.model) : IsClaude(name)

\* C23: a thinking_budget supplied by the client for a numeric-budget target
\* is forwarded as it is, 0 included: none is derived in its place.
C23_SuppliedBudgetKept ==
    (Called /\ ForClaude(request) /\ Has(request, "thinking_budget")) =>
        /\ Has(backendCalls[1].payload, "thinking_budget")
        /\ backendCalls[1].payload.thinking_budget = request.thinking_budget

\* C24: a thinking_budget derived from an effort level is at least 1024 and
\* less than the max_tokens it is sent with.
C24_BudgetBelowMaxTokens ==
    (/\ Called /\ ForClaude(request)
     /\ ~Has(request, "thinking_budget")
     /\ Has(backendCalls[1].payload, "thinking_budget")) =>
        /\ Has(backendCalls[1].payload, "max_tokens")
        /\ backendCalls[1].payload.max_tokens > 0
        /\ 1024 <= backendCalls[1].payload.thinking_budget
        /\ backendCalls[1].payload.thinking_budget < backendCalls[1].payload.max_tokens

----------------------------------------------------------------------------
(* Properties of failed writes *)

\* C25: with the consumer gone, so that every write fails, an event other
\* than an end-of-stream marker leaves the loop running, whatever it would
\* have written; the loop fails only on the "[DONE]" written for an
\* end-of-stream marker.
C25_WriteFailureCaught ==
    [][/\ (ReceivesEvent /\ ~connected /\ ~IsEndMarker(Last(consumed'))) =>
             /\ pc' = "run"
             /\ out' = out
       /\ (pc # "failed" /\ pc' = "failed") =>
             /\ ReceivesEvent
             /\ ~connected
             /\ IsEndMarker(Last(consumed'))]_vars

\* C25 witness: the consumer left before the first event; a text delta, a
\* completed event and a function call were still received and handled, and
\* nothing reached the consumer
C25_Witness ==
    /\ ~connected
    /\ consumedAtAbort = 0
    /\ consumed = <<TextA, Completed, CallAdded>>
    /\ out = << >>
    /\ pc = "run"
    /\ state.roleEmitted
    /\ Len(state.toolCalls) = 1

====
